---------------------------- MODULE Spec2Model ----------------------------
(***************************************************************************)
(* Model of the accessibility UtteranceQueue of scenery-phet: a module-wide *)
(* array of pending Utterances, two flags (muted, enabled), and a repeating *)
(* Timer callback that shifts the head of the array and hands its text to   *)
(* AriaHerald.announcePolite.                                               *)
(*                                                                         *)
(* History variables (calls, log, dropped, cleared, superseded, op) record  *)
(* what the callers and the sink observed; the program never reads them.    *)
(***************************************************************************)
EXTENDS Integers, Sequences, FiniteSets, TLC

\* ------------------------------------------------------------------ bounds

\* Number of addToBack/addToFront calls explored in the general specification.
MaxCalls == 2

\* Number of addToBack calls explored in the FIFO specification.
MaxFifoCalls == 4

\* Number of addToBack calls explored in the alert-cursor specification.
MaxCursorCalls == 4

\* Number of addToBack calls explored in the looping-alert specification.
MaxLoopCalls == 7

\* Number of addToBack calls explored in the reset specification.
MaxResetCalls == 4

\* Number of addToBack calls explored in the timer-period specification.
MaxTimerCalls == 2

\* Number of addToBack calls explored in the disable/enable specification.
MaxFreezeCalls == 3

\* Number of enqueueing calls explored in the drain specification.
MaxDrainCalls == 2

\* Number of addToBack calls explored in the flags specification.
MaxFlagCalls == 1

\* Number of tap-to-dispense starts explored in the faucet specification.
MaxTaps == 2

\* Number of enqueueing calls explored in the front-insertion specification.
MaxFrontCalls == 3

\* Number of caller enqueues, and of fires of the button, explored in the
\* reset-all specifications.
MaxResetAllCalls == 2
MaxFires == 2

\* Number of addToBack calls explored in the dropped-announcement specification.
MaxSkipCalls == 3

\* Number of addToBack calls explored in the movement specification.
MaxMovementCalls == 4

\* Number of presses, and the longest press in units of intervalDelay,
\* explored in the arrow button specification.
MaxPresses == 2
MaxHoldSteps == 7

\* var interval = 500: the interval for sending alerts, in milliseconds.
DefaultInterval == 500

\* ------------------------------------------------------------ Utterances

\* The JavaScript null of options.typeId (the default of an Utterance).
Null == "null"

\* JavaScript truthiness of a typeId: null and the empty string are falsy.
Truthy(typeId) == typeId # Null /\ typeId # ""

\* An Utterance object: its options, and `name`, the identity of the object
\* (two references to one object share its cursor).
Utterance(name, alert, typeId, loopAlerts, predicate) ==
    [name |-> name, alert |-> alert, typeId |-> typeId,
     loopAlerts |-> loopAlerts, predicate |-> predicate]

\* Utterances that callers construct and reuse.
UtteranceA == Utterance("A", <<"a">>, "x", FALSE, "default")
UtteranceB == Utterance("B", <<"b">>, "x", FALSE, "custom")
UtteranceC == Utterance("C", <<"c">>, "y", FALSE, "default")
UtteranceE == Utterance("E", <<"e">>, "", FALSE, "default")
UtteranceN == Utterance("N", <<"1", "2", "3">>, Null, FALSE, "default")
UtteranceM == Utterance("M", <<"m1", "m2">>, Null, FALSE, "default")
UtteranceS == Utterance("S", <<"s">>, Null, FALSE, "default")
UtteranceL == Utterance("L", <<"1", "2", "3">>, Null, TRUE, "default")
UtteranceK == Utterance("K", <<"k1", "k2">>, Null, TRUE, "default")
UtteranceP == Utterance("P", <<"p1", "p2">>, Null, FALSE, "custom")

\* resetUtterance, the ActivationUtterance a ResetAllButton constructs once and
\* enqueues after every reset.
resetUtterance == Utterance("R", <<"reset">>, Null, FALSE, "default")

\* Names of the reusable Utterance objects (the ones that keep a cursor).
ObjectNames == {"A", "B", "C", "E", "N", "M", "S", "L", "K", "R", "D", "P"}

\* A bare string handed to addToBack/addToFront, and an Utterance handed to them.
StringArg(s) == [isString |-> TRUE, text |-> s]
UtteranceArg(u) == [isString |-> FALSE, utterance |-> u]

\* new Utterance( string ): a fresh single-string, non-looping Utterance with
\* no typeId and the default predicate. A fresh object has no shared cursor.
NewUtterance(s) == Utterance("", <<s>>, Null, FALSE, "default")

\* What predicate() may return at drain time: the default predicate returns
\* true; a caller-supplied predicate may return either value.
PredicateResults(u) == IF u.predicate = "default" THEN {TRUE} ELSE BOOLEAN

VARIABLES
    queue,      \* var queue: <<[u: Utterance, id: call number]>>, first to last
    muted,      \* var muted
    enabled,    \* var enabled
    cursor,     \* per Utterance object: index (0-based) of the string to emit next
    calls,      \* history: every addToBack/addToFront call, in call order
    log,        \* history: what AriaHerald.announcePolite received, in order
    dropped,    \* history: entries a drain removed without announcing them
    cleared,    \* history: ids that were pending when clear() ran
    superseded, \* history: ids pending when a same-typeId addToBack was accepted
    op          \* history: the operation executed last

\* The variables of the queue and of its history.
queueVars == <<queue, muted, enabled, cursor, calls, log, dropped, cleared, superseded, op>>

VARIABLES
    interval,    \* var interval (milliseconds)
    timerDelay,  \* the delay the Timer.setInterval call registered the callback with
    elapsed,     \* milliseconds since the timer callback last ran
    cycleInterval, \* history: the value of interval when the current timer cycle began
    sinceReset,  \* history: per Utterance object, announcements since its last reset()
    frozen,      \* history: ids that were pending when setEnabled( false ) ran
    draining,    \* history: callers have stopped enqueuing and leave the queue enabled
    setterArg,   \* history: per setter, the arguments of its last calls, <<>> if none
    result       \* history: how the last phet-io wrapper call ended

\* The variables of the timer period, and the histories of the setters, of the
\* cursor and of the wrapper type.
timerVars == <<interval, timerDelay, elapsed, cycleInterval>>
queueExtVars == <<timerVars, sinceReset, frozen, draining, setterArg, result>>

VARIABLES
    faucet,      \* FaucetNode: its properties, closure variables, options and timers
    arrowButton, \* ArrowButton: its closure variables, listener state and timers
    resetAllButton,    \* ResetAllButton: isFiring, and what its listeners did to the queue
    movementDescriber  \* MovementDescriber: options, and the direction computed last

\* The variables of the widgets.
describerVars == <<resetAllButton, movementDescriber>>
widgetVars == <<faucet, arrowButton, describerVars>>

extVars == <<queueExtVars, widgetVars>>

vars == <<queueVars, extVars>>

\* ------------------------------------------------------------- FaucetNode

\* maxFlowRate, and the flow rate of tap-to-dispense:
\* ( tapToDispenseAmount / tapToDispenseInterval ) * 1000 with the default
\* options, that is, half of maxFlowRate.
maxFlowRate == 2
TapFlowRate == maxFlowRate \div 2

\* A faucet as its constructor leaves it. A timer is named by the
\* tap-to-dispense that scheduled it and by its kind; timeoutID and intervalID
\* hold no timer ({}) or one timer. ended is a history: each tap-to-dispense
\* that endTapToDispense ended, with the flow rate it left.
FaucetNode(closeOnRelease, tapToDispenseEnabled) ==
    [enabled |-> TRUE, flowRate |-> 0, dragging |-> FALSE,
     tapToDispenseIsArmed |-> FALSE, tapToDispenseIsRunning |-> FALSE,
     timeoutID |-> {}, intervalID |-> {}, timers |-> {}, taps |-> 0, ended |-> {},
     closeOnRelease |-> closeOnRelease, tapToDispenseEnabled |-> tapToDispenseEnabled,
     op |-> "new"]

\* The history of ended taps once a call of endTapToDispense has left g.
Ended(f, g) ==
    IF f.tapToDispenseIsRunning
    THEN f.ended \cup {[tap |-> f.taps, flowRate |-> g.flowRate]}
    ELSE f.ended

\* Mutant: endTapToDispense() that clears the timeout but not the interval.
endTapToDispenseKeepsInterval(f) ==
    LET g == [f EXCEPT !.flowRate = 0,
                       !.timers = f.timers \ f.timeoutID,
                       !.timeoutID = {},
                       !.tapToDispenseIsRunning = FALSE]
    IN  [g EXCEPT !.ended = Ended(f, g)]

\* endTapToDispense()
endTapToDispense(f) ==
    LET g == [f EXCEPT !.flowRate = 0,
                       !.timers = f.timers \ (f.timeoutID \cup f.intervalID),
                       !.timeoutID = {},
                       !.intervalID = {},
                       !.tapToDispenseIsRunning = FALSE]
    IN  [g EXCEPT !.ended = Ended(f, g)]

\* startTapToDispense()
startTapToDispense(f) ==
    IF f.enabled /\ f.tapToDispenseIsArmed
    THEN LET timeout == [tap |-> f.taps + 1, kind |-> "timeout"]
         IN  [f EXCEPT !.tapToDispenseIsArmed = FALSE,
                       !.tapToDispenseIsRunning = TRUE,
                       !.flowRate = TapFlowRate,
                       !.timeoutID = {timeout},
                       !.timers = f.timers \cup {timeout},
                       !.taps = f.taps + 1]
    ELSE f

\* shooterHandler.start
shooterStart(f) ==
    IF f.enabled THEN [f EXCEPT !.tapToDispenseIsArmed = f.tapToDispenseEnabled] ELSE f

\* shooterHandler.drag, the pointer being where the flow rate is flowRate
shooterDrag(f, flowRate) ==
    LET disarmed == [f EXCEPT !.tapToDispenseIsArmed = FALSE]
        stopped == IF disarmed.tapToDispenseIsRunning THEN endTapToDispense(disarmed)
                   ELSE disarmed
    IN  IF stopped.enabled THEN [stopped EXCEPT !.flowRate = flowRate] ELSE stopped

\* shooterHandler.end
shooterEnd(f) ==
    IF f.enabled
    THEN IF f.tapToDispenseIsArmed
         THEN IF f.tapToDispenseIsRunning \/ f.flowRate # 0
              THEN endTapToDispense(f)
              ELSE startTapToDispense(f)
         ELSE IF f.closeOnRelease THEN [f EXCEPT !.flowRate = 0] ELSE f
    ELSE f

\* shooterHandler.endDrag(): the drag is over and the end callback runs
endDrag(f) == shooterEnd([f EXCEPT !.dragging = FALSE])

\* The listener linked to enabledProperty, run with the new value in place.
enabledListener(f) ==
    LET released == IF ~f.enabled /\ f.dragging THEN endDrag(f) ELSE f
    IN  IF ~released.enabled /\ released.tapToDispenseIsRunning
        THEN endTapToDispense(released)
        ELSE released

\* ------------------------------------------------------------ ArrowButton

\* options.timerDelay and options.intervalDelay (milliseconds)
DefaultTimerDelay == 400
DefaultIntervalDelay == 100

\* An arrow button as its constructor leaves it. state is the state of its
\* ButtonListener; a timer is named by its kind and by the press that
\* scheduled it, and timers holds each scheduled timer with the time that
\* remains until it is due. held and callbacks are histories: how long the
\* current press has lasted and how often callback() ran since it began.
ArrowButton ==
    [enabled |-> TRUE, fired |-> FALSE, timeoutID |-> {}, intervalID |-> {},
     timers |-> {}, state |-> "up", presses |-> 0, held |-> 0, callbacks |-> 0,
     op |-> "new"]

\* callback()
callback(b) == [b EXCEPT !.callbacks = b.callbacks + 1]

\* cleanupTimer()
cleanupTimer(b) ==
    [b EXCEPT !.timers = {t \in b.timers : t.id \notin b.timeoutID \cup b.intervalID},
              !.timeoutID = {},
              !.intervalID = {}]

\* ButtonListener down
down(b) ==
    IF b.timeoutID = {} /\ b.intervalID = {}
    THEN LET id == [kind |-> "timeout", press |-> b.presses]
         IN  [b EXCEPT !.fired = FALSE,
                       !.timeoutID = {id},
                       !.timers = b.timers \cup {[id |-> id, remaining |-> DefaultTimerDelay]}]
    ELSE b

\* ButtonListener up
up(b) == cleanupTimer(b)

\* ButtonListener fire
fire(b) ==
    LET cleaned == cleanupTimer(b)
    IN  IF ~cleaned.fired /\ cleaned.enabled THEN callback(cleaned) ELSE cleaned

\* The callback of Timer.setTimeout( ..., options.timerDelay ), timer being the
\* timeout that is due.
timeoutCallback(b, timer) ==
    LET id == [kind |-> "interval", press |-> timer.id.press]
    IN  [b EXCEPT !.timeoutID = {},
                  !.fired = TRUE,
                  !.intervalID = {id},
                  !.timers = (b.timers \ {timer})
                                 \cup {[id |-> id, remaining |-> DefaultIntervalDelay]}]

\* The callback of Timer.setInterval( ..., options.intervalDelay ), timer being
\* the interval that is due; the Timer schedules it again.
intervalCallback(b, timer) ==
    LET again == [b EXCEPT !.timers = (b.timers \ {timer})
                                 \cup {[timer EXCEPT !.remaining = DefaultIntervalDelay]}]
    IN  IF again.enabled THEN callback(again) ELSE again

\* --------------------------------------- ResetAllButton, MovementDescriber

\* A reset-all button as its constructor leaves it. setMuted is the value that
\* the property UtteranceQueue.setMuted holds (the button's listeners assign to
\* it); started tells whether the listener of startedCallbacksForFired has run
\* and the one of endedCallbacksForFired has not. discarded and fires are
\* histories: the ids that were pending when a fire began or were enqueued
\* during one, and the number of fires begun.
ResetAllButton ==
    [isFiring |-> FALSE, started |-> FALSE,
     setMuted |-> [type |-> "function", value |-> "setMuted"],
     discarded |-> {}, fires |-> 0, op |-> "new"]

\* A movement describer as its constructor leaves it.
MovementDescriber(alertDiagonal) ==
    [alertDiagonal |-> alertDiagonal, angle |-> 0, direction |-> "none", op |-> "new"]

\* Angles are in degrees here: Math.PI is 180 and DIAGONAL_MOVEMENT_THRESHOLD,
\* 15 * Math.PI / 180, is 15.
PI == 180
DIAGONAL_MOVEMENT_THRESHOLD == 15

\* new Range( min, max ) and range.contains( value ), both ends included.
NewRange(min, max) == [min |-> min, max |-> max]
contains(range, value) == range.min <= value /\ value <= range.max

DIRECTION_MAP ==
    [UP |-> NewRange(((0 - 3) * PI) \div 4 + DIAGONAL_MOVEMENT_THRESHOLD,
                      (0 - PI) \div 4 - DIAGONAL_MOVEMENT_THRESHOLD),
     DOWN |-> NewRange(PI \div 4 + DIAGONAL_MOVEMENT_THRESHOLD,
                        (3 * PI) \div 4 - DIAGONAL_MOVEMENT_THRESHOLD),
     RIGHT |-> NewRange((0 - PI) \div 4 + DIAGONAL_MOVEMENT_THRESHOLD,
                         PI \div 4 - DIAGONAL_MOVEMENT_THRESHOLD),
     LEFT |-> NewRange((3 * PI) \div 4 + DIAGONAL_MOVEMENT_THRESHOLD, PI),
     UP_LEFT |-> NewRange((0 - 3) * PI - DIAGONAL_MOVEMENT_THRESHOLD,
                           ((0 - 3) * PI) \div 4 + DIAGONAL_MOVEMENT_THRESHOLD),
     DOWN_LEFT |-> NewRange((3 * PI) \div 4 - DIAGONAL_MOVEMENT_THRESHOLD,
                             (3 * PI) \div 4 + DIAGONAL_MOVEMENT_THRESHOLD),
     UP_RIGHT |-> NewRange((0 - PI) \div 4 - DIAGONAL_MOVEMENT_THRESHOLD,
                            (0 - PI) \div 4 + DIAGONAL_MOVEMENT_THRESHOLD),
     DOWN_RIGHT |-> NewRange(PI \div 4 - DIAGONAL_MOVEMENT_THRESHOLD,
                              PI \div 4 + DIAGONAL_MOVEMENT_THRESHOLD)]

\* Object.keys( DIRECTION_MAP ), in insertion order.
DIRECTION_MAP_KEYS ==
    <<"UP", "DOWN", "RIGHT", "LEFT", "UP_LEFT", "DOWN_LEFT", "UP_RIGHT", "DOWN_RIGHT">>

Abs(x) == IF x < 0 THEN 0 - x ELSE x

\* MovementDescriber.getDirectionEnumerable, given the angle Math.atan2 returned:
\* LEFT if the absolute value of the angle is in the LEFT range, then the first
\* key whose range contains the angle, if there is one, replaces it.
getDirectionEnumerable(angle) ==
    LET direction == IF contains(DIRECTION_MAP.LEFT, Abs(angle)) THEN "LEFT" ELSE "undefined"
        found == {i \in 1..Len(DIRECTION_MAP_KEYS) :
                     contains(DIRECTION_MAP[DIRECTION_MAP_KEYS[i]], angle)}
    IN  IF found = {} THEN direction
        ELSE DIRECTION_MAP_KEYS[CHOOSE i \in found : \A j \in found : i <= j]

\* DirectionEnum.directionToRelativeDirections: a diagonal direction becomes
\* its two primary directions, a primary direction stays.
directionToRelativeDirections(direction) ==
    CASE direction = "UP_LEFT" -> <<"UP", "LEFT">>
      [] direction = "UP_RIGHT" -> <<"UP", "RIGHT">>
      [] direction = "DOWN_LEFT" -> <<"DOWN", "LEFT">>
      [] direction = "DOWN_RIGHT" -> <<"DOWN", "RIGHT">>
      [] OTHER -> <<direction>>

\* MovementDescriber.getDirections
getDirections(describer, angle) ==
    IF describer.alertDiagonal THEN <<getDirectionEnumerable(angle)>>
    ELSE directionToRelativeDirections(getDirectionEnumerable(angle))

\* DEFAULT_MOVEMENT_DESCRIPTIONS, the movementAlerts of a describer
DEFAULT_MOVEMENT_DESCRIPTIONS ==
    [LEFT |-> "left", RIGHT |-> "right", UP |-> "up", DOWN |-> "down",
     UP_LEFT |-> "up and to the left", UP_RIGHT |-> "up and to the right",
     DOWN_LEFT |-> "down and to the left", DOWN_RIGHT |-> "down and to the right"]

\* this.directionChangeUtterance, its alert field holding alert.
directionChangeUtterance(alert) == Utterance("D", <<alert>>, Null, FALSE, "default")

\* ------------------------------------------------------------ pure helpers

\* queue.splice( i, 1 )
Splice(q, i) == SubSeq(q, 1, i - 1) \o SubSeq(q, i + 1, Len(q))

\* Mutant: the loop stops before index 0 (i > 0 instead of i >= 0).
RECURSIVE RemoveSameTypeSkipFirst(_, _, _)
RemoveSameTypeSkipFirst(q, i, typeId) ==
    IF i < 2 THEN q
    ELSE IF q[i].u.typeId = typeId
         THEN RemoveSameTypeSkipFirst(Splice(q, i), i - 1, typeId)
         ELSE RemoveSameTypeSkipFirst(q, i - 1, typeId)

\* The loop of addToBack: for i = queue.length - 1 down to 0, splice every
\* entry whose typeId === typeId. (i is 1-based here.)
RECURSIVE RemoveSameType(_, _, _)
RemoveSameType(q, i, typeId) ==
    IF i < 1 THEN q
    ELSE IF q[i].u.typeId = typeId
         THEN RemoveSameType(Splice(q, i), i - 1, typeId)
         ELSE RemoveSameType(q, i - 1, typeId)

\* The string an Utterance emits now: a fresh object emits its first string,
\* a reused one the string under its cursor.
CursorOf(u) == IF u.name \in ObjectNames THEN cursor[u.name] ELSE 0
TextOf(u) == u.alert[CursorOf(u) + 1]

\* The cursor after an announcement: wraps when looping, otherwise saturates
\* at the last string.
Advance(u) ==
    IF u.loopAlerts THEN (CursorOf(u) + 1) % Len(u.alert)
    ELSE IF CursorOf(u) + 1 < Len(u.alert) THEN CursorOf(u) + 1 ELSE CursorOf(u)

\* Ids of the entries of a queue.
Ids(q) == {q[i].id : i \in 1..Len(q)}
LogIds == {log[i].id : i \in 1..Len(log)}

\* ------------------------------------------------------------------- Init

Init ==
    /\ queue = <<>>
    /\ muted = FALSE
    /\ enabled = TRUE
    /\ cursor = [n \in ObjectNames |-> 0]
    /\ calls = <<>>
    /\ log = <<>>
    /\ dropped = {}
    /\ cleared = {}
    /\ superseded = {}
    /\ op = "init"
    /\ interval = DefaultInterval
    /\ timerDelay = DefaultInterval
    /\ elapsed = 0
    /\ cycleInterval = DefaultInterval
    /\ sinceReset = [n \in ObjectNames |-> 0]
    /\ frozen = {}
    /\ draining = FALSE
    /\ setterArg = [setMuted |-> <<>>, setEnabled |-> <<>>, setInterval |-> <<>>]
    /\ result = [method |-> "none", arg |-> Null, outcome |-> "none", value |-> Null]
    /\ faucet = FaucetNode(TRUE, TRUE)
    /\ arrowButton = ArrowButton
    /\ resetAllButton = ResetAllButton
    /\ movementDescriber = MovementDescriber(FALSE)

\* ---------------------------------------------------------------- actions

\* The Utterance an argument stands for (strings are wrapped).
AsUtterance(arg) == IF arg.isString THEN NewUtterance(arg.text) ELSE arg.utterance

\* Mutant: addToBack that unshifts instead of pushing.
QueueAfterAddToBackUnshift(q, en, arg, id) ==
    IF ~en THEN q
    ELSE LET utterance == AsUtterance(arg)
             kept == IF Truthy(utterance.typeId)
                     THEN RemoveSameType(q, Len(q), utterance.typeId)
                     ELSE q
         IN  <<[u |-> utterance, id |-> id]>> \o kept

\* Mutant: addToBack without the enabled check.
QueueAfterAddToBackNoGuard(q, en, arg, id) ==
    LET utterance == AsUtterance(arg)
        kept == IF Truthy(utterance.typeId)
                THEN RemoveSameType(q, Len(q), utterance.typeId)
                ELSE q
    IN  Append(kept, [u |-> utterance, id |-> id])

\* Mutant: addToBack that evicts without testing utterance.typeId first, so
\* that a null typeId matches the null typeId of other entries.
QueueAfterAddToBackEvictsNull(q, en, arg, id) ==
    IF ~en THEN q
    ELSE LET utterance == AsUtterance(arg)
         IN  Append(RemoveSameType(q, Len(q), utterance.typeId),
                    [u |-> utterance, id |-> id])

\* The queue after addToBack( arg ), called on queue q with the enabled flag en;
\* id is the call number kept with the entry.
QueueAfterAddToBack(q, en, arg, id) ==
    IF ~en THEN q
    ELSE LET utterance == AsUtterance(arg)
             kept == IF Truthy(utterance.typeId)
                     THEN RemoveSameType(q, Len(q), utterance.typeId)
                     ELSE q
         IN  Append(kept, [u |-> utterance, id |-> id])

\* Mutant: addToFront that pushes instead of unshifting.
QueueAfterAddToFrontPush(q, en, arg, id) ==
    IF ~en THEN q
    ELSE Append(q, [u |-> AsUtterance(arg), id |-> id])

\* Mutant: addToFront that evicts the entries of the same typeId, as addToBack
\* does.
QueueAfterAddToFrontEvicts(q, en, arg, id) ==
    IF ~en THEN q
    ELSE LET utterance == AsUtterance(arg)
             kept == IF Truthy(utterance.typeId)
                     THEN RemoveSameType(q, Len(q), utterance.typeId)
                     ELSE q
         IN  <<[u |-> utterance, id |-> id]>> \o kept

\* The queue after addToFront( arg ).
QueueAfterAddToFront(q, en, arg, id) ==
    IF ~en THEN q
    ELSE <<[u |-> AsUtterance(arg), id |-> id]>> \o q

\* The record of a call in the history.
Call(arg, via) == [u |-> AsUtterance(arg), via |-> via, accepted |-> enabled]

\* UtteranceQueue.addToBack( arg )
addToBack(arg) ==
    LET id == Len(calls) + 1
        typeId == AsUtterance(arg).typeId
    IN  /\ queue' = QueueAfterAddToBack(queue, enabled, arg, id)
        /\ calls' = Append(calls, Call(arg, "back"))
        /\ superseded' = IF enabled /\ Truthy(typeId)
                         THEN superseded \cup
                              {queue[i].id : i \in {j \in 1..Len(queue) : queue[j].u.typeId = typeId}}
                         ELSE superseded
        /\ op' = "addToBack"
        /\ UNCHANGED <<muted, enabled, cursor, log, dropped, cleared>>

\* Mutant: addToFront that hands the utterance to the sink at once ("to be
\* read immediately") instead of queueing it.
addToFrontAnnounces(arg) ==
    LET id == Len(calls) + 1
    IN  /\ log' = IF enabled
                  THEN Append(log, [id |-> id, text |-> TextOf(AsUtterance(arg))])
                  ELSE log
        /\ calls' = Append(calls, Call(arg, "front"))
        /\ op' = "addToFront"
        /\ UNCHANGED <<queue, muted, enabled, cursor, dropped, cleared, superseded>>

\* UtteranceQueue.addToFront( arg )
addToFront(arg) ==
    LET id == Len(calls) + 1
    IN  /\ queue' = QueueAfterAddToFront(queue, enabled, arg, id)
        /\ calls' = Append(calls, Call(arg, "front"))
        /\ op' = "addToFront"
        /\ UNCHANGED <<muted, enabled, cursor, log, dropped, cleared, superseded>>

\* Mutant: next() that does not test muted.
SpeaksWhenMuted(isMuted, predicateResult) == predicateResult

\* Mutant: next() that does not call predicate().
SpeaksIgnoringPredicate(isMuted, predicateResult) == ~isMuted

\* Whether next() speaks the utterance it shifted, given what predicate() returns.
Speaks(isMuted, predicateResult) == ~isMuted /\ predicateResult

\* Mutant: next() in which each of its two reads of nextUtterance.text moves
\* the cursor of the utterance.
nextAdvancesTwice ==
    IF queue = <<>>
    THEN UNCHANGED <<queue, cursor, log, dropped>>
    ELSE LET nextUtterance == Head(queue)
             u == nextUtterance.u
             n == Len(u.alert)
             c == CursorOf(u)
         IN  /\ queue' = Tail(queue)
             /\ IF ~muted
                THEN /\ log' = Append(log, [id |-> nextUtterance.id, text |-> TextOf(u)])
                     /\ cursor' = IF u.name \in ObjectNames
                                  THEN [cursor EXCEPT ![u.name] =
                                          IF u.loopAlerts THEN (c + 2) % n
                                          ELSE IF c + 2 < n THEN c + 2 ELSE n - 1]
                                  ELSE cursor
                ELSE UNCHANGED <<log, cursor>>
             /\ dropped' = IF muted
                           THEN dropped \cup {[id |-> nextUtterance.id, why |-> "muted"]}
                           ELSE dropped

\* Mutant: next() that puts the utterance back at the head of the queue when
\* its predicate returns false, to try it again on the following tick.
nextRetries ==
    IF queue = <<>>
    THEN UNCHANGED <<queue, cursor, log, dropped>>
    ELSE LET nextUtterance == Head(queue)
         IN  \E predicateResult \in PredicateResults(nextUtterance.u) :
                /\ queue' = IF predicateResult THEN Tail(queue) ELSE queue
                /\ IF Speaks(muted, predicateResult)
                   THEN /\ log' = Append(log, [id |-> nextUtterance.id,
                                               text |-> TextOf(nextUtterance.u)])
                        /\ cursor' = IF nextUtterance.u.name \in ObjectNames
                                     THEN [cursor EXCEPT ![nextUtterance.u.name] =
                                                            Advance(nextUtterance.u)]
                                     ELSE cursor
                   ELSE UNCHANGED <<log, cursor>>
                /\ dropped' = IF muted /\ predicateResult
                              THEN dropped \cup {[id |-> nextUtterance.id, why |-> "muted"]}
                              ELSE dropped

\* Mutant: next() that reads nextUtterance.text, moving the cursor of the
\* utterance, before it tests muted and the predicate.
nextAdvancesWhenDropped ==
    IF queue = <<>>
    THEN UNCHANGED <<queue, cursor, log, dropped>>
    ELSE LET nextUtterance == Head(queue)
         IN  \E predicateResult \in PredicateResults(nextUtterance.u) :
                /\ queue' = Tail(queue)
                /\ cursor' = IF nextUtterance.u.name \in ObjectNames
                              THEN [cursor EXCEPT ![nextUtterance.u.name] =
                                                     Advance(nextUtterance.u)]
                              ELSE cursor
                /\ log' = IF Speaks(muted, predicateResult)
                           THEN Append(log, [id |-> nextUtterance.id,
                                             text |-> TextOf(nextUtterance.u)])
                           ELSE log
                /\ dropped' = IF muted \/ ~predicateResult
                               THEN dropped \cup
                                    {[id |-> nextUtterance.id,
                                      why |-> IF muted THEN "muted" ELSE "predicate"]}
                               ELSE dropped

\* UtteranceQueue.next(): shift the head; announce it unless muted or its
\* predicate returns false.
next ==
    IF queue = <<>>
    THEN UNCHANGED <<queue, cursor, log, dropped>>
    ELSE LET nextUtterance == Head(queue)
         IN  \E predicateResult \in PredicateResults(nextUtterance.u) :
                /\ queue' = Tail(queue)
                /\ IF Speaks(muted, predicateResult)
                   THEN /\ log' = Append(log, [id |-> nextUtterance.id,
                                               text |-> TextOf(nextUtterance.u)])
                        /\ cursor' = IF nextUtterance.u.name \in ObjectNames
                                     THEN [cursor EXCEPT ![nextUtterance.u.name] =
                                                            Advance(nextUtterance.u)]
                                     ELSE cursor
                   ELSE UNCHANGED <<log, cursor>>
                /\ dropped' = IF muted \/ ~predicateResult
                              THEN dropped \cup
                                   {[id |-> nextUtterance.id,
                                     why |-> IF muted THEN "muted" ELSE "predicate"]}
                              ELSE dropped

\* Mutant: a Timer callback without the enabled check.
TimerStepsAlways(en) == TRUE

\* Whether the Timer callback steps the queue.
TimerSteps(en) == en

\* The Timer.setInterval callback: no-op while disabled, otherwise next().
Tick ==
    /\ op' = "tick"
    /\ UNCHANGED <<muted, enabled, calls, cleared, superseded>>
    /\ IF TimerSteps(enabled) THEN next
       ELSE UNCHANGED <<queue, cursor, log, dropped>>

\* Mutant: clear() that only removes the head (queue.shift()).
QueueAfterClearShift(q) == IF q = <<>> THEN q ELSE Tail(q)

\* The queue after clear().
QueueAfterClear(q) == <<>>

\* UtteranceQueue.clear()
clear ==
    /\ queue' = QueueAfterClear(queue)
    /\ cleared' = cleared \cup Ids(queue)
    /\ op' = "clear"
    /\ UNCHANGED <<muted, enabled, cursor, calls, log, dropped, superseded>>

\* Mutant: setMuted that assigns the enabled variable.
setMutedSetsEnabled(isMuted) ==
    /\ enabled' = isMuted
    /\ op' = "setMuted"
    /\ UNCHANGED <<queue, muted, cursor, calls, log, dropped, cleared, superseded>>

\* UtteranceQueue.setMuted( isMuted )
setMuted(isMuted) ==
    /\ muted' = isMuted
    /\ op' = "setMuted"
    /\ UNCHANGED <<queue, enabled, cursor, calls, log, dropped, cleared, superseded>>

\* Mutant: setEnabled( false ) that also empties the queue.
setEnabledClears(isEnabled) ==
    /\ enabled' = isEnabled
    /\ queue' = IF isEnabled THEN queue ELSE <<>>
    /\ op' = "setEnabled"
    /\ UNCHANGED <<muted, cursor, calls, log, dropped, cleared, superseded>>

\* UtteranceQueue.setEnabled( isEnabled )
setEnabled(isEnabled) ==
    /\ enabled' = isEnabled
    /\ op' = "setEnabled"
    /\ UNCHANGED <<queue, muted, cursor, calls, log, dropped, cleared, superseded>>

\* UtteranceQueue.setInterval( alertInterval )
setInterval(alertInterval) ==
    /\ interval' = alertInterval
    /\ op' = "setInterval"
    /\ UNCHANGED <<queue, muted, enabled, cursor, calls, log, dropped, cleared, superseded>>

\* UtteranceQueue.getInterval(), getMuted() and getEnabled()
getInterval == interval
getMuted == muted
getEnabled == enabled

\* What reading a member of the UtteranceQueue object yields. muted, enabled
\* and interval are accessor properties: reading them runs the getter.
\* setMuted is a data property that holds the function, or whatever was
\* assigned to it since. Every other member is a function.
Member(name) ==
    CASE name = "muted" -> [type |-> "boolean", value |-> getMuted]
      [] name = "setMuted" -> resetAllButton.setMuted
      [] name = "enabled" -> [type |-> "boolean", value |-> getEnabled]
      [] name = "interval" -> [type |-> "number", value |-> getInterval]
      [] OTHER -> [type |-> "function", value |-> name]

\* Whether a value can be called.
IsCallable(member) == member.type = "function"

\* A TUtteranceQueue method whose implementation is this.instance.<name>( arg ):
\* the member is read and the value read is called. Calling a value that is
\* not a function raises a TypeError and nothing else happens.
CallMember(method, name, arg) ==
    /\ result' = [method |-> method, arg |-> arg,
                  outcome |-> IF IsCallable(Member(name)) THEN "returned" ELSE "TypeError",
                  value |-> Null]
    /\ op' = "TUtteranceQueue." \o method
    /\ UNCHANGED <<queue, muted, enabled, cursor, calls, log, dropped, cleared, superseded>>

\* utterance.reset(): the cursor of the Utterance object returns to its first
\* string.
reset(name) ==
    /\ cursor' = [cursor EXCEPT ![name] = 0]
    /\ op' = "reset"
    /\ UNCHANGED <<queue, muted, enabled, calls, log, dropped, cleared, superseded>>

\* Mutant: a listener of isFiringProperty that does not clear the queue.
isFiringListenerKeepsQueue(isFiring) ==
    /\ enabled' = ~isFiring
    /\ queue' = IF isFiring THEN queue
                ELSE QueueAfterAddToBack(queue, ~isFiring, UtteranceArg(resetUtterance),
                                         Len(calls) + 1)
    /\ calls' = IF isFiring THEN calls
                ELSE Append(calls, [Call(UtteranceArg(resetUtterance), "back")
                                       EXCEPT !.accepted = TRUE])
    /\ op' = "isFiring"
    /\ UNCHANGED <<muted, cursor, log, dropped, cleared, superseded>>

\* The listener ResetAllButton links to isFiringProperty:
\* utteranceQueue.enabled = !isFiring, then clear() when the fire begins,
\* addToBack( resetUtterance ) when it is over.
isFiringListener(isFiring) ==
    /\ enabled' = ~isFiring
    /\ queue' = IF isFiring THEN QueueAfterClear(queue)
                ELSE QueueAfterAddToBack(queue, ~isFiring, UtteranceArg(resetUtterance),
                                         Len(calls) + 1)
    /\ cleared' = IF isFiring THEN cleared \cup Ids(queue) ELSE cleared
    /\ calls' = IF isFiring THEN calls
                ELSE Append(calls, [Call(UtteranceArg(resetUtterance), "back")
                                       EXCEPT !.accepted = TRUE])
    /\ op' = "isFiring"
    /\ UNCHANGED <<muted, cursor, log, dropped, superseded>>

\* A caller's UtteranceQueue.setMuted( isMuted ): the member is read and the
\* value read is called; calling a value that is not a function raises a
\* TypeError and nothing else happens.
callSetMuted(isMuted) ==
    IF IsCallable(Member("setMuted"))
    THEN /\ setMuted(isMuted)
         /\ result' = [method |-> "setMuted", arg |-> isMuted, outcome |-> "returned",
                       value |-> Null]
    ELSE CallMember("setMuted", "setMuted", isMuted)

\* disableAlertsListener of the emitter-based ResetAllButton:
\* UtteranceQueue.setMuted= true
disableAlertsListener(b) == [b EXCEPT !.setMuted = [type |-> "boolean", value |-> TRUE]]

\* The Utterance that enableAlertsListener constructs.
resetAllAlert == Utterance("", <<"reset">>, "resetAllButtonAlert", FALSE, "default")

\* enableAlertsListener of the emitter-based ResetAllButton:
\* UtteranceQueue.clear(); UtteranceQueue.setMuted= false;
\* UtteranceQueue.addToBack( new Utterance( ... ) )
enableAlertsListener(b) ==
    /\ queue' = QueueAfterAddToBack(QueueAfterClear(queue), enabled,
                                    UtteranceArg(resetAllAlert), Len(calls) + 1)
    /\ cleared' = cleared \cup Ids(queue)
    /\ calls' = Append(calls, Call(UtteranceArg(resetAllAlert), "back"))
    /\ op' = "enableAlerts"
    /\ resetAllButton' = [b EXCEPT !.setMuted = [type |-> "boolean", value |-> FALSE],
                                   !.started = FALSE,
                                   !.op = "ended"]
    /\ UNCHANGED <<muted, enabled, cursor, log, dropped, superseded>>

\* object.alert = alert for the Utterance object called name: every reference
\* to the object that the queue holds sees the new value.
SetAlert(q, name, alert) ==
    [i \in 1..Len(q) |-> IF q[i].u.name = name THEN [q[i] EXCEPT !.u.alert = <<alert>>]
                         ELSE q[i]]

\* The queue and the call history after MovementDescriber.alertDirections:
\* for each direction, directionChangeUtterance.alert is assigned and the
\* utterance is handed to addToBack.
RECURSIVE alertDirections(_, _, _)
alertDirections(q, history, directions) ==
    IF directions = <<>> THEN [queue |-> q, calls |-> history]
    ELSE LET alert == DEFAULT_MOVEMENT_DESCRIPTIONS[Head(directions)]
             arg == UtteranceArg(directionChangeUtterance(alert))
         IN  alertDirections(
                 QueueAfterAddToBack(SetAlert(q, "D", alert), enabled, arg, Len(history) + 1),
                 Append(history, Call(arg, "back")),
                 Tail(directions))

\* ---------------------------------------------------------- specifications

\* Arguments callers pass in the general specification.
Args == {StringArg("hi"), UtteranceArg(UtteranceA), UtteranceArg(UtteranceB),
         UtteranceArg(UtteranceE)}

AddToBack ==
    Len(calls) < MaxCalls /\ (\E a \in Args : addToBack(a)) /\ UNCHANGED extVars
AddToFront ==
    Len(calls) < MaxCalls /\ (\E a \in Args : addToFront(a)) /\ UNCHANGED extVars
TimerTick == Tick /\ UNCHANGED extVars
Clear == clear /\ UNCHANGED extVars
SetMuted == (\E isMuted \in BOOLEAN : setMuted(isMuted)) /\ UNCHANGED extVars
SetEnabled == (\E isEnabled \in BOOLEAN : setEnabled(isEnabled)) /\ UNCHANGED extVars

Next == AddToBack \/ AddToFront \/ TimerTick \/ Clear \/ SetMuted \/ SetEnabled

Spec == Init /\ [][Next]_vars


\* FIFO specification: the queue stays enabled and unmuted, every predicate is
\* the default one, and callers only use addToBack, with utterances whose
\* typeId is null or differs from the typeId of every earlier call.
FifoArgs == {StringArg("hi"), StringArg("alert"), UtteranceArg(UtteranceA),
             UtteranceArg(UtteranceC), UtteranceArg(UtteranceE), UtteranceArg(UtteranceN)}

DistinctTypeId(arg) ==
    \/ AsUtterance(arg).typeId = Null
    \/ \A i \in 1..Len(calls) : calls[i].u.typeId # AsUtterance(arg).typeId

AddToBackFifo ==
    /\ Len(calls) < MaxFifoCalls
    /\ \E a \in FifoArgs : DistinctTypeId(a) /\ addToBack(a)
    /\ UNCHANGED extVars

NextFifo == AddToBackFifo \/ TimerTick

SpecFifo == Init /\ [][NextFifo]_vars

\* Alert-cursor specification: callers enqueue reusable multi-string Utterances
\* without typeId with addToBack, and the timer drains them.
CursorArgs == {UtteranceArg(UtteranceN), UtteranceArg(UtteranceM), UtteranceArg(UtteranceS)}

AddToBackCursor ==
    Len(calls) < MaxCursorCalls /\ (\E a \in CursorArgs : addToBack(a)) /\ UNCHANGED extVars

NextCursor == AddToBackCursor \/ TimerTick

SpecCursor == Init /\ [][NextCursor]_vars

\* Looping-alert specification: callers enqueue reusable Utterances with
\* loopAlerts: true with addToBack, and the timer drains them.
LoopArgs == {UtteranceArg(UtteranceL), UtteranceArg(UtteranceK)}

AddToBackLoop ==
    Len(calls) < MaxLoopCalls /\ (\E a \in LoopArgs : addToBack(a)) /\ UNCHANGED extVars

NextLoop == AddToBackLoop \/ TimerTick

SpecLoop == Init /\ [][NextLoop]_vars

\* Reset specification: callers enqueue a non-looping and a looping Utterance
\* with addToBack and reset them at any time; the timer drains the queue.
\* sinceReset counts, per object, the announcements since its last reset().
ResetArgs == {UtteranceArg(UtteranceN), UtteranceArg(UtteranceL)}

AddToBackReset ==
    /\ Len(calls) < MaxResetCalls
    /\ \E a \in ResetArgs : addToBack(a)
    /\ UNCHANGED extVars

TickReset ==
    /\ Tick
    /\ sinceReset' = IF Len(log') > Len(log)
                     THEN LET name == calls[log'[Len(log')].id].u.name
                          IN  [sinceReset EXCEPT ![name] = @ + 1]
                     ELSE sinceReset
    /\ UNCHANGED <<widgetVars, timerVars, frozen, draining, setterArg, result>>

Reset ==
    \E a \in ResetArgs :
        /\ reset(a.utterance.name)
        /\ sinceReset' = [sinceReset EXCEPT ![a.utterance.name] = 0]
        /\ UNCHANGED <<widgetVars, timerVars, frozen, draining, setterArg, result>>

NextReset == AddToBackReset \/ TickReset \/ Reset

SpecReset == Init /\ [][NextReset]_vars

\* Timer-period specification. Time passes in steps of half the default
\* interval; the Timer runs the callback registered at start-up each time the
\* delay it was registered with has elapsed. Callers change the interval and
\* enqueue utterances at any time.
Quantum == DefaultInterval \div 2
Intervals == {Quantum, DefaultInterval, 2 * DefaultInterval}

AddToBackTimer ==
    Len(calls) < MaxTimerCalls /\ (\E a \in FifoArgs : addToBack(a)) /\ UNCHANGED extVars

SetInterval ==
    \E alertInterval \in Intervals :
        /\ setInterval(alertInterval)
        /\ setterArg' = [setterArg EXCEPT !.setInterval = <<alertInterval>>]
        /\ UNCHANGED <<widgetVars, timerDelay, elapsed, cycleInterval, sinceReset, frozen, draining, result>>

TimePasses ==
    /\ elapsed < timerDelay
    /\ elapsed' = elapsed + Quantum
    /\ op' = "wait"
    /\ UNCHANGED <<queue, muted, enabled, cursor, calls, log, dropped, cleared, superseded>>
    /\ UNCHANGED <<widgetVars, interval, timerDelay, cycleInterval, sinceReset, frozen, draining,
                   setterArg, result>>

TimerFires ==
    /\ elapsed >= timerDelay
    /\ Tick
    /\ elapsed' = 0
    /\ cycleInterval' = interval
    /\ UNCHANGED <<widgetVars, interval, timerDelay, sinceReset, frozen, draining, setterArg, result>>

NextTimer == AddToBackTimer \/ SetInterval \/ TimePasses \/ TimerFires

SpecTimer == Init /\ [][NextTimer]_vars

\* Disable/enable specification: callers enqueue, clear, and switch the queue
\* off and on; frozen records the ids that were pending at a setEnabled( false ).
FreezeArgs == {StringArg("hi"), UtteranceArg(UtteranceA), UtteranceArg(UtteranceB)}

AddToBackFreeze ==
    Len(calls) < MaxFreezeCalls /\ (\E a \in FreezeArgs : addToBack(a)) /\ UNCHANGED extVars

SetEnabledFreeze ==
    \E isEnabled \in BOOLEAN :
        /\ setEnabled(isEnabled)
        /\ frozen' = IF isEnabled THEN frozen ELSE frozen \cup Ids(queue)
        /\ UNCHANGED <<widgetVars, timerVars, sinceReset, draining, setterArg, result>>

NextFreeze == AddToBackFreeze \/ TimerTick \/ Clear \/ SetEnabledFreeze

SpecFreeze == Init /\ [][NextFreeze]_vars

\* Drain specification: callers fill the queue and set its flags; from some
\* moment at which the queue is enabled and not empty (draining) nothing more
\* is enqueued and the queue stays enabled, while the muted flag may still
\* change. The Timer keeps running its callback (weak fairness of the tick).
DrainArgs == {UtteranceArg(UtteranceA), UtteranceArg(UtteranceB)}

AddToBackDrain ==
    /\ ~draining
    /\ Len(calls) < MaxDrainCalls
    /\ \E a \in DrainArgs : addToBack(a)
    /\ UNCHANGED extVars

AddToFrontDrain ==
    /\ ~draining
    /\ Len(calls) < MaxDrainCalls
    /\ \E a \in DrainArgs : addToFront(a)
    /\ UNCHANGED extVars

SetEnabledDrain == ~draining /\ SetEnabled

StartDraining ==
    /\ ~draining
    /\ enabled
    /\ queue # <<>>
    /\ draining' = TRUE
    /\ op' = "drain"
    /\ UNCHANGED <<queue, muted, enabled, cursor, calls, log, dropped, cleared, superseded>>
    /\ UNCHANGED <<widgetVars, timerVars, sinceReset, frozen, setterArg, result>>

NextDrain ==
    AddToBackDrain \/ AddToFrontDrain \/ SetEnabledDrain \/ SetMuted \/ StartDraining
        \/ TimerTick

SpecDrain == Init /\ [][NextDrain]_vars /\ WF_vars(TimerTick)

\* Flags specification: callers use the setters of the queue and the methods
\* of its phet-io wrapper type while utterances are enqueued and announced.
\* setterArg records the arguments of the last two calls of each flag setter.
FlagArgs == {StringArg("hi"), UtteranceArg(UtteranceA)}

LastTwo(args, b) == IF args = <<>> THEN <<b>> ELSE <<args[Len(args)], b>>

AddToBackFlags ==
    Len(calls) < MaxFlagCalls /\ (\E a \in FlagArgs : addToBack(a)) /\ UNCHANGED extVars

SetMutedFlag ==
    \E isMuted \in BOOLEAN :
        /\ setMuted(isMuted)
        /\ setterArg' = [setterArg EXCEPT !.setMuted = LastTwo(@, isMuted)]
        /\ UNCHANGED <<widgetVars, timerVars, sinceReset, frozen, draining, result>>

SetEnabledFlag ==
    \E isEnabled \in BOOLEAN :
        /\ setEnabled(isEnabled)
        /\ setterArg' = [setterArg EXCEPT !.setEnabled = LastTwo(@, isEnabled)]
        /\ UNCHANGED <<widgetVars, timerVars, sinceReset, frozen, draining, result>>

TSetMuted ==
    /\ \E b \in BOOLEAN : CallMember("setMuted", "muted", b)
    /\ UNCHANGED <<widgetVars, timerVars, sinceReset, frozen, draining, setterArg>>

TGetMuted ==
    /\ CallMember("getMuted", "muted", Null)
    /\ UNCHANGED <<widgetVars, timerVars, sinceReset, frozen, draining, setterArg>>

TSetEnabled ==
    /\ \E b \in BOOLEAN : CallMember("setEnabled", "enabled", b)
    /\ UNCHANGED <<widgetVars, timerVars, sinceReset, frozen, draining, setterArg>>

TGetEnabled ==
    /\ CallMember("getEnabled", "enabled", Null)
    /\ UNCHANGED <<widgetVars, timerVars, sinceReset, frozen, draining, setterArg>>

NextFlags ==
    AddToBackFlags \/ TimerTick \/ SetMutedFlag \/ SetEnabledFlag \/ SetInterval
        \/ TSetMuted \/ TGetMuted \/ TSetEnabled \/ TGetEnabled

SpecFlags == Init /\ [][NextFlags]_vars

\* Faucet specification: the faucet is built with the default options or with
\* others; the user presses, drags and releases the shooter, the simulation
\* sets enabledProperty, and the Timer runs the callbacks that are scheduled.
NewFaucetNode ==
    /\ faucet.op = "new"
    /\ \E closeOnRelease \in BOOLEAN, tapToDispenseEnabled \in BOOLEAN :
          faucet' = [FaucetNode(closeOnRelease, tapToDispenseEnabled) EXCEPT !.op = "options"]
    /\ UNCHANGED <<queueVars, queueExtVars, arrowButton, describerVars>>

ShooterDown ==
    /\ ~faucet.dragging
    /\ faucet.taps < MaxTaps
    /\ faucet' = [shooterStart([faucet EXCEPT !.dragging = TRUE]) EXCEPT !.op = "start"]
    /\ UNCHANGED <<queueVars, queueExtVars, arrowButton, describerVars>>

ShooterMove ==
    /\ faucet.dragging
    /\ \E flowRate \in 0..maxFlowRate :
          faucet' = [shooterDrag(faucet, flowRate) EXCEPT !.op = "drag"]
    /\ UNCHANGED <<queueVars, queueExtVars, arrowButton, describerVars>>

ShooterUp ==
    /\ faucet.dragging
    /\ faucet' = [endDrag(faucet) EXCEPT !.op = "end"]
    /\ UNCHANGED <<queueVars, queueExtVars, arrowButton, describerVars>>

SetFaucetEnabled ==
    /\ \E isEnabled \in BOOLEAN :
          /\ isEnabled # faucet.enabled
          /\ faucet' = [enabledListener([faucet EXCEPT !.enabled = isEnabled])
                            EXCEPT !.op = "enabled"]
    /\ UNCHANGED <<queueVars, queueExtVars, arrowButton, describerVars>>

\* The callback of Timer.setTimeout( ..., 0 ): schedule the interval.
FaucetTimeoutFires ==
    /\ \E timer \in faucet.timers :
          /\ timer.kind = "timeout"
          /\ LET every == [tap |-> timer.tap, kind |-> "interval"]
             IN  faucet' = [faucet EXCEPT !.intervalID = {every},
                                          !.timers = (faucet.timers \ {timer}) \cup {every},
                                          !.op = "timeout"]
    /\ UNCHANGED <<queueVars, queueExtVars, arrowButton, describerVars>>

\* The callback of Timer.setInterval( ..., tapToDispenseInterval ).
FaucetIntervalFires ==
    /\ \E timer \in faucet.timers :
          /\ timer.kind = "interval"
          /\ faucet' = [endTapToDispense(faucet) EXCEPT !.op = "interval"]
    /\ UNCHANGED <<queueVars, queueExtVars, arrowButton, describerVars>>

NextFaucet ==
    NewFaucetNode \/ ShooterDown \/ ShooterMove \/ ShooterUp \/ SetFaucetEnabled
        \/ FaucetTimeoutFires \/ FaucetIntervalFires

SpecFaucet == Init /\ [][NextFaucet]_vars

\* The faucet with a Timer that runs: a callback that stays scheduled is called.
SpecFaucetFair ==
    SpecFaucet /\ WF_vars(FaucetTimeoutFires) /\ WF_vars(FaucetIntervalFires)

\* Arrow button specification: the user presses the button, moves the pointer
\* off and back onto it while pressing, and releases it over the button or
\* outside of it; time passes in steps of intervalDelay and the Timer runs every
\* callback at the moment it is due.
Pressed(b) == b.state \in {"down", "out"}
Due(b) == {t \in b.timers : t.remaining = 0}

ArrowPress ==
    /\ arrowButton.state \in {"up", "over"}
    /\ arrowButton.presses < MaxPresses
    /\ arrowButton' = [down([arrowButton EXCEPT !.state = "down",
                                                !.presses = arrowButton.presses + 1,
                                                !.held = 0,
                                                !.callbacks = 0])
                          EXCEPT !.op = "down"]
    /\ UNCHANGED <<queueVars, queueExtVars, faucet, describerVars>>

ArrowRelease ==
    /\ arrowButton.state = "down"
    /\ arrowButton' = [fire([arrowButton EXCEPT !.state = "over"]) EXCEPT !.op = "fire"]
    /\ UNCHANGED <<queueVars, queueExtVars, faucet, describerVars>>

ArrowExit ==
    /\ arrowButton.state = "down"
    /\ arrowButton' = [arrowButton EXCEPT !.state = "out", !.op = "out"]
    /\ UNCHANGED <<queueVars, queueExtVars, faucet, describerVars>>

ArrowEnter ==
    /\ arrowButton.state = "out"
    /\ arrowButton' = [down([arrowButton EXCEPT !.state = "down"]) EXCEPT !.op = "down"]
    /\ UNCHANGED <<queueVars, queueExtVars, faucet, describerVars>>

ArrowReleaseOutside ==
    /\ arrowButton.state = "out"
    /\ arrowButton' = [up([arrowButton EXCEPT !.state = "up"]) EXCEPT !.op = "up"]
    /\ UNCHANGED <<queueVars, queueExtVars, faucet, describerVars>>

ArrowLeave ==
    /\ arrowButton.state = "over"
    /\ arrowButton' = [up([arrowButton EXCEPT !.state = "up"]) EXCEPT !.op = "up"]
    /\ UNCHANGED <<queueVars, queueExtVars, faucet, describerVars>>

ArrowTimePasses ==
    /\ Pressed(arrowButton) \/ arrowButton.timers # {}
    /\ Due(arrowButton) = {}
    /\ arrowButton.held < MaxHoldSteps * DefaultIntervalDelay
    /\ arrowButton' =
          [arrowButton EXCEPT
              !.timers = {[t EXCEPT !.remaining = t.remaining - DefaultIntervalDelay] :
                             t \in arrowButton.timers},
              !.held = IF Pressed(arrowButton) THEN arrowButton.held + DefaultIntervalDelay
                       ELSE arrowButton.held,
              !.op = "time"]
    /\ UNCHANGED <<queueVars, queueExtVars, faucet, describerVars>>

ArrowTimeoutFires ==
    /\ \E timer \in Due(arrowButton) :
          /\ timer.id.kind = "timeout"
          /\ arrowButton' = [timeoutCallback(arrowButton, timer) EXCEPT !.op = "timeout"]
    /\ UNCHANGED <<queueVars, queueExtVars, faucet, describerVars>>

ArrowIntervalFires ==
    /\ \E timer \in Due(arrowButton) :
          /\ timer.id.kind = "interval"
          /\ arrowButton' = [intervalCallback(arrowButton, timer) EXCEPT !.op = "interval"]
    /\ UNCHANGED <<queueVars, queueExtVars, faucet, describerVars>>

NextArrow ==
    ArrowPress \/ ArrowRelease \/ ArrowExit \/ ArrowEnter \/ ArrowReleaseOutside
        \/ ArrowLeave \/ ArrowTimePasses \/ ArrowTimeoutFires \/ ArrowIntervalFires

SpecArrow == Init /\ [][NextArrow]_vars

\* Front-insertion specification: callers mix addToFront and addToBack, also
\* with utterances of one typeId and of a caller-supplied predicate, and clear
\* the queue, while the timer drains it.
FrontArgs == {StringArg("hi"), UtteranceArg(UtteranceA), UtteranceArg(UtteranceB)}

AddToBackFront ==
    Len(calls) < MaxFrontCalls /\ (\E a \in FrontArgs : addToBack(a)) /\ UNCHANGED extVars

AddToFrontFront ==
    Len(calls) < MaxFrontCalls /\ (\E a \in FrontArgs : addToFront(a)) /\ UNCHANGED extVars

NextFront == AddToBackFront \/ AddToFrontFront \/ TimerTick \/ Clear

SpecFront == Init /\ [][NextFront]_vars

\* Reset-all specification: callers enqueue at any time, also while the button
\* is firing (the properties being reset alert their changes); the user fires
\* the button, which sets isFiringProperty to true and, when the reset is done,
\* back to false. Nobody else sets the enabled flag.
ResetAllArgs == {StringArg("hi"), UtteranceArg(UtteranceA)}

Discarded(b, ids) == IF b.isFiring THEN [b EXCEPT !.discarded = b.discarded \cup ids] ELSE b

AddToBackResetAll ==
    /\ Len(calls) < MaxResetAllCalls + resetAllButton.fires
    /\ \E a \in ResetAllArgs : addToBack(a)
    /\ resetAllButton' = Discarded(resetAllButton, {Len(calls) + 1})
    /\ UNCHANGED <<queueExtVars, faucet, arrowButton, movementDescriber>>

AddToFrontResetAll ==
    /\ Len(calls) < MaxResetAllCalls + resetAllButton.fires
    /\ \E a \in ResetAllArgs : addToFront(a)
    /\ resetAllButton' = Discarded(resetAllButton, {Len(calls) + 1})
    /\ UNCHANGED <<queueExtVars, faucet, arrowButton, movementDescriber>>

FireBegins ==
    /\ ~resetAllButton.isFiring
    /\ resetAllButton.fires < MaxFires
    /\ isFiringListener(TRUE)
    /\ resetAllButton' = [resetAllButton EXCEPT !.isFiring = TRUE,
                                                !.discarded = @ \cup Ids(queue),
                                                !.fires = @ + 1,
                                                !.op = "fire"]
    /\ UNCHANGED <<queueExtVars, faucet, arrowButton, movementDescriber>>

FireEnds ==
    /\ resetAllButton.isFiring
    /\ isFiringListener(FALSE)
    /\ resetAllButton' = [resetAllButton EXCEPT !.isFiring = FALSE, !.op = "fired"]
    /\ UNCHANGED <<queueExtVars, faucet, arrowButton, movementDescriber>>

NextResetAll == AddToBackResetAll \/ AddToFrontResetAll \/ TimerTick \/ FireBegins \/ FireEnds

SpecResetAll == Init /\ [][NextResetAll]_vars

\* Emitter specification: the emitter-based ResetAllButton is fired (its
\* listeners run when the callbacks of the fire start and when they have
\* ended) while callers enqueue and call setMuted, and the timer drains.
AddToBackEmitter ==
    /\ Len(calls) < MaxResetAllCalls + resetAllButton.fires
    /\ \E a \in ResetAllArgs : addToBack(a)
    /\ UNCHANGED extVars

StartedCallbacksForFired ==
    /\ ~resetAllButton.started
    /\ resetAllButton.fires < MaxFires
    /\ resetAllButton' = [disableAlertsListener(resetAllButton)
                             EXCEPT !.started = TRUE, !.fires = @ + 1, !.op = "started"]
    /\ op' = "disableAlerts"
    /\ UNCHANGED <<queue, muted, enabled, cursor, calls, log, dropped, cleared, superseded>>
    /\ UNCHANGED <<queueExtVars, faucet, arrowButton, movementDescriber>>

EndedCallbacksForFired ==
    /\ resetAllButton.started
    /\ enableAlertsListener(resetAllButton)
    /\ UNCHANGED <<queueExtVars, faucet, arrowButton, movementDescriber>>

CallSetMuted ==
    /\ \E isMuted \in BOOLEAN : callSetMuted(isMuted)
    /\ UNCHANGED <<widgetVars, timerVars, sinceReset, frozen, draining, setterArg>>

NextEmitter ==
    AddToBackEmitter \/ TimerTick \/ StartedCallbacksForFired \/ EndedCallbacksForFired
        \/ CallSetMuted

SpecEmitter == Init /\ [][NextEmitter]_vars

\* Dropped-announcement specification: callers enqueue reusable multi-string
\* Utterances, one of them with a predicate of its own, and mute and unmute
\* the queue; the timer drains it.
AddToBackSkip ==
    /\ Len(calls) < MaxSkipCalls
    /\ \E a \in {UtteranceArg(UtteranceN), UtteranceArg(UtteranceP)} : addToBack(a)
    /\ UNCHANGED extVars

NextSkip == AddToBackSkip \/ SetMuted \/ TimerTick

SpecSkip == Init /\ [][NextSkip]_vars

\* Direction specification: getDirectionEnumerable is applied to the angle of
\* a movement, every whole degree that Math.atan2 may return.
GetDirectionEnumerable ==
    /\ \E angle \in (0 - PI)..PI :
          movementDescriber' = [movementDescriber EXCEPT
                                   !.angle = angle,
                                   !.direction = getDirectionEnumerable(angle),
                                   !.op = "getDirectionEnumerable"]
    /\ UNCHANGED <<queueVars, queueExtVars, faucet, arrowButton, resetAllButton>>

SpecDirection == Init /\ [][GetDirectionEnumerable]_vars

\* Movement specification: a describer is built with alertDiagonal false or
\* true; the dragged object ends a move in one of the eight directions and the
\* describer alerts the movement; the timer drains the queue.
NewMovementDescriber ==
    /\ movementDescriber.op = "new"
    /\ \E alertDiagonal \in BOOLEAN :
          movementDescriber' = [MovementDescriber(alertDiagonal) EXCEPT !.op = "options"]
    /\ UNCHANGED <<queueVars, queueExtVars, faucet, arrowButton, resetAllButton>>

AlertDirectionalMovement ==
    /\ Len(calls) < MaxMovementCalls
    /\ \E angle \in {((0 - 3) * PI) \div 4, (0 - PI) \div 2, PI \div 4, PI} :
          LET after == alertDirections(queue, calls, getDirections(movementDescriber, angle))
          IN  /\ queue' = after.queue
              /\ calls' = after.calls
              /\ movementDescriber' = [movementDescriber EXCEPT
                                           !.angle = angle,
                                           !.direction = getDirectionEnumerable(angle),
                                           !.op = "alertDirectionalMovement"]
    /\ op' = "addToBack"
    /\ UNCHANGED <<muted, enabled, cursor, log, dropped, cleared, superseded>>
    /\ UNCHANGED <<queueExtVars, faucet, arrowButton, resetAllButton>>

NextMovement == NewMovementDescriber \/ AlertDirectionalMovement \/ TimerTick

SpecMovement == Init /\ [][NextMovement]_vars

\* ------------------------------------------------------------------ claims

\* The strings of an alert sequence.
Range(s) == {s[i] : i \in 1..Len(s)}

\* C1: with the queue enabled and unmuted and every predicate true, addToBack
\* calls with pairwise distinct typeIds (or none) reach the sink in call order,
\* however the drain ticks interleave with the calls: the announced entries are
\* calls 1..Len(log) in that order, each with a text of its own utterance, and
\* the pending entries are the remaining calls, in call order.
C1_FifoOrder ==
    /\ Len(log) + Len(queue) = Len(calls)
    /\ \A i \in 1..Len(log) : log[i].id = i /\ log[i].text \in Range(calls[i].u.alert)
    /\ \A k \in 1..Len(queue) : queue[k].id = Len(log) + k /\ queue[k].u = calls[Len(log) + k].u

\* C1 witness: three announcements made, in call order, of utterances with
\* distinct typeIds, while a later call is still pending.
C1_Witness ==
    /\ Len(log) = 3 /\ Len(queue) = 1 /\ op = "tick"
    /\ calls[1].u = UtteranceA /\ calls[2].u = UtteranceC /\ calls[3].u = NewUtterance("hi")
    /\ <<log[1].text, log[2].text, log[3].text>> = <<"a", "c", "hi">>

\* Call numbers of the accepted calls made through addToFront.
FrontCalls == {i \in 1..Len(calls) : calls[i].via = "front" /\ calls[i].accepted}

\* Whether the step announces something, and the id it announces.
Announces == Len(log') = Len(log) + 1
AnnouncedId == log'[Len(log')].id

\* C2: in every reachable state the queue holds at most one pending entry for
\* each non-null typeId value (the empty string included).
C2_AtMostOnePerTypeId ==
    \A i, j \in 1..Len(queue) :
        (i < j /\ queue[i].u.typeId # Null) => queue[i].u.typeId # queue[j].u.typeId

C4_FrontAlwaysAnnouncedFirst ==
    [][(Announces /\ calls[AnnouncedId].via = "back")
       => \A f \in FrontCalls : f > AnnouncedId => f \in LogIds]_vars

\* C4 amended: when an utterance enqueued with addToBack is announced, no
\* utterance accepted by a later addToFront call is still pending (so such an
\* utterance, if it is announced at all, is announced first).
C4_FrontNeverBehindEarlierBack ==
    [][(Announces /\ calls[AnnouncedId].via = "back")
       => \A f \in FrontCalls : f > AnnouncedId => f \notin Ids(queue)]_vars

\* C4 witness: an utterance added to the front after a pending addToBack one
\* was announced first, the addToBack one after it.
C4_Witness ==
    /\ Len(log) = 2 /\ op = "tick"
    /\ log[1].id = 2 /\ calls[2].via = "front"
    /\ log[2].id = 1 /\ calls[1].via = "back"

\* C5: while enabled is false, addToBack and addToFront leave the queue as it
\* is, and a rejected call never shows up in the queue, also after the queue is
\* enabled again.
C5_DisabledAddIsNoOp ==
    [][/\ (~enabled /\ op' \in {"addToBack", "addToFront"}) => queue' = queue
       /\ \A i \in 1..Len(calls') : ~calls'[i].accepted => i \notin Ids(queue')]_vars

\* C5 witness: the queue was enabled again after rejecting an addToBack whose
\* typeId matches an entry that is still pending.
C5_Witness ==
    /\ enabled /\ op = "setEnabled" /\ Len(calls) = 2
    /\ calls[1].accepted /\ ~calls[2].accepted /\ calls[2].via = "back"
    /\ Truthy(calls[1].u.typeId) /\ calls[1].u.typeId = calls[2].u.typeId
    /\ Ids(queue) = {1}

\* C6: while enabled is false, a timer tick removes nothing from the queue and
\* sends nothing to the sink, muted or not.
C6_DisabledTickIsFrozen ==
    [][(~enabled /\ op' = "tick") => (queue' = queue /\ log' = log /\ dropped' = dropped)]_vars

\* C6 witness: a tick ran on a non-empty, unmuted, disabled queue.
C6_Witness == ~enabled /\ ~muted /\ op = "tick" /\ queue # <<>>

\* The queue addToBack( u ) must leave, stated without the loop: the entries of
\* another (or of no) type in their order, then the new one.
ExpectedAfterAddToBack(q, u, id) ==
    SelectSeq(q, LAMBDA e : ~(Truthy(u.typeId) /\ e.u.typeId = u.typeId))
        \o <<[u |-> u, id |-> id]>>

\* C7: while muted (and enabled) nothing is sent to the sink, a tick on a
\* non-empty queue removes exactly the head, and addToBack and clear change the
\* queue as they do when unmuted.
C7_MutedStillDrains ==
    [][(muted /\ enabled) =>
         /\ log' = log
         /\ (op' = "tick" /\ queue # <<>>) => queue' = Tail(queue)
         /\ (op' = "addToBack") =>
               queue' = ExpectedAfterAddToBack(queue, calls'[Len(calls')].u, Len(calls'))
         /\ (op' = "clear") => queue' = <<>>]_vars

\* C7 witness: a tick dropped the head of a muted queue and left the rest.
C7_Witness ==
    /\ muted /\ enabled /\ op = "tick" /\ log = <<>>
    /\ \E d \in dropped : d.why = "muted"
    /\ queue # <<>>

\* C8: a tick whose head utterance's predicate() returns false removes that
\* head, sends nothing, and the entry is never queued or announced afterwards.
C8_PredicateFalseDrops ==
    [][/\ \A d \in dropped' \ dropped :
             d.why = "predicate" =>
                (queue # <<>> /\ d.id = Head(queue).id /\ queue' = Tail(queue) /\ log' = log)
       /\ \A d \in dropped' : d.id \notin Ids(queue') /\ d.id \notin LogIds']_vars

\* C8 witness: an unmuted tick dropped an utterance on its predicate, and a
\* later tick announced the entry behind it.
C8_Witness ==
    /\ ~muted /\ enabled /\ op = "tick"
    /\ \E d \in dropped : d.why = "predicate" /\ d.id = 1
    /\ Len(log) = 1 /\ log[1].id = 2

TimesAnnounced(i) ==
    Cardinality({j \in 1..i : calls[log[j].id].u.name = calls[log[i].id].u.name})

\* C10: a non-looping Utterance of n strings without typeId, enqueued k times
\* with addToBack and drained, is announced k times, and its i-th announcement
\* is string number min(i, n).
C10_CursorSaturates ==
    /\ Len(log) + Len(queue) = Len(calls)
    /\ \A i \in 1..Len(log) :
          LET u == calls[log[i].id].u
              n == Len(u.alert)
              k == TimesAnnounced(i)
          IN  log[i].text = u.alert[IF k < n THEN k ELSE n]

\* C10 witness: the Utterance [ '1', '2', '3' ] was enqueued four times and
\* the sink received '1', '2', '3', '3'.
C10_Witness ==
    /\ Len(log) = 4
    /\ \A i \in 1..4 : calls[i].u = UtteranceN /\ log[i].id = i
    /\ <<log[1].text, log[2].text, log[3].text, log[4].text>> = <<"1", "2", "3", "3">>

\* C11: an Utterance with loopAlerts true and n strings, enqueued k times with
\* addToBack and drained, is announced k times, and its i-th announcement is
\* string number ((i - 1) mod n) + 1.
C11_CursorLoops ==
    /\ Len(log) + Len(queue) = Len(calls)
    /\ \A i \in 1..Len(log) :
          LET u == calls[log[i].id].u
              n == Len(u.alert)
              k == TimesAnnounced(i)
          IN  log[i].text = u.alert[((k - 1) % n) + 1]

\* C11 witness: the looping Utterance [ '1', '2', '3' ] was enqueued seven
\* times and the sink received '1', '2', '3', '1', '2', '3', '1'.
C11_Witness ==
    /\ Len(log) = 7
    /\ \A i \in 1..7 : calls[i].u = UtteranceL /\ log[i].id = i
    /\ [i \in 1..7 |-> log[i].text] = <<"1", "2", "3", "1", "2", "3", "1">>

\* The string a fresh Utterance emits at its k-th announcement (k >= 1).
FreshText(u, k) ==
    IF u.loopAlerts THEN u.alert[((k - 1) % Len(u.alert)) + 1]
    ELSE u.alert[IF k < Len(u.alert) THEN k ELSE Len(u.alert)]

\* C12: after utterance.reset() the next announcement of the utterance emits
\* its first string, and the k-th announcement after the reset emits what the
\* k-th announcement of a fresh utterance emits, looping or not, wherever the
\* cursor was before the reset.
C12_ResetStartsOver ==
    [][Announces =>
         LET u == calls[AnnouncedId].u
         IN  log'[Len(log')].text = FreshText(u, sinceReset[u.name] + 1)]_vars

\* C12 witness: the Utterance [ '1', '2', '3' ] emitted '1', '2', was reset with
\* its cursor on '3', and then emitted '1' again.
C12_Witness ==
    /\ Len(log) = 3 /\ op = "tick"
    /\ \A i \in 1..3 : calls[log[i].id].u = UtteranceN
    /\ <<log[1].text, log[2].text, log[3].text>> = <<"1", "2", "1">>
    /\ sinceReset["N"] = 1

\* C13: setInterval( ms ) reconfigures the drain period: every timer cycle that
\* begins after the call lasts ms milliseconds (the callback runs when the
\* interval in force at the start of its cycle has elapsed), and getInterval()
\* returns ms.
C13_PeriodFollowsInterval ==
    [][/\ (op' = "tick") => elapsed = cycleInterval
       /\ (op' = "setInterval") => getInterval' = setterArg'.setInterval[1]]_vars

\* C14 (as stated): disabling the queue discards everything not yet announced;
\* no utterance that was pending at a setEnabled( false ) is ever announced,
\* also not after a later setEnabled( true ).
C14_DisableDiscardsPending == frozen \cap LogIds = {}

\* C14 (amended): disabling the queue discards nothing. setEnabled leaves the
\* queue and the log as they are, a tick of a disabled queue removes and
\* announces nothing, and every utterance that was pending at a
\* setEnabled( false ) is afterwards still pending, or was announced, dropped
\* by a tick of the re-enabled queue, cleared or superseded.
C14_DisableFreezesPending ==
    [][/\ (op' = "setEnabled") => (queue' = queue /\ log' = log)
       /\ (~enabled /\ op' = "tick") => (queue' = queue /\ log' = log)
       /\ frozen' \subseteq Ids(queue') \cup LogIds' \cup {d.id : d \in dropped'}
                                \cup cleared' \cup superseded']_vars

\* An utterance that was pending when the queue was disabled has been
\* announced by a tick after the queue was enabled again.
C14_Witness == enabled /\ op = "tick" /\ frozen \cap LogIds # {}

\* C15: while the queue is disabled, utterances cannot be added and the queue
\* cannot be cleared: addToBack, addToFront and clear() leave the queue
\* contents unchanged and nothing is announced.
C15_DisabledQueueIsUntouched ==
    [][(~enabled /\ op' \in {"addToBack", "addToFront", "clear"})
          => (queue' = queue /\ log' = log)]_vars

\* C16: no utterance stalls the drain loop. Once the queue stays enabled and
\* nothing more is enqueued, the queue eventually becomes empty under fair
\* firing of the timer, whatever muted is and whatever the predicates return;
\* each tick of an enabled, non-empty queue shortens it by exactly one.
C16_DrainEmptiesQueue ==
    /\ draining ~> (queue = <<>>)
    /\ [][(enabled /\ op' = "tick" /\ queue # <<>>) => Len(queue') = Len(queue) - 1]_vars

\* A drain has emptied the queue, one of its ticks having discarded an
\* utterance whose predicate returned false.
C16_Witness ==
    /\ draining
    /\ queue = <<>>
    /\ op = "tick"
    /\ \E d \in dropped : d.why = "predicate"

\* C17: the flag setters are idempotent and the getters reflect the last
\* value set. setMuted( b ) makes getMuted() return b and leaves enabled, the
\* interval and the queue contents as they are, so that a second setMuted( b )
\* changes nothing; likewise setEnabled / getEnabled. getMuted() and
\* getEnabled() always return the argument of the most recent setter call.
Last(args) == args[Len(args)]

C17_FlagSettersIdempotent ==
    [][/\ (op' = "setMuted") =>
            /\ getMuted' = Last(setterArg'.setMuted)
            /\ <<enabled, interval, queue>>' = <<enabled, interval, queue>>
            /\ (muted = Last(setterArg'.setMuted)) =>
                    <<muted, enabled, interval, queue, cursor, log>>'
                        = <<muted, enabled, interval, queue, cursor, log>>
       /\ (op' = "setEnabled") =>
            /\ getEnabled' = Last(setterArg'.setEnabled)
            /\ <<muted, interval, queue>>' = <<muted, interval, queue>>
            /\ (enabled = Last(setterArg'.setEnabled)) =>
                    <<muted, enabled, interval, queue, cursor, log>>'
                        = <<muted, enabled, interval, queue, cursor, log>>
       /\ (setterArg'.setMuted # <<>>) => getMuted' = Last(setterArg'.setMuted)
       /\ (setterArg'.setEnabled # <<>>) => getEnabled' = Last(setterArg'.setEnabled)]_vars

\* setMuted( true ) has just been called for the second time in a row on a
\* disabled queue that holds an utterance and whose interval was changed.
C17_Witness ==
    /\ op = "setMuted"
    /\ setterArg.setMuted = <<TRUE, TRUE>>
    /\ getMuted
    /\ ~getEnabled
    /\ queue # <<>>
    /\ getInterval # DefaultInterval

\* C18: through the phet-io wrapper type, setMuted( b ) and setEnabled( b ) set
\* the flag of the wrapped queue to b, getMuted() and getEnabled() return the
\* current value of the flag, and none of the four methods raises an error.
C18_WrapperMethodsWork ==
    /\ result.outcome # "TypeError"
    /\ (op = "TUtteranceQueue.setMuted") => muted = result.arg
    /\ (op = "TUtteranceQueue.setEnabled") => enabled = result.arg
    /\ (op = "TUtteranceQueue.getMuted") => result.value = muted
    /\ (op = "TUtteranceQueue.getEnabled") => result.value = enabled

\* C19: whenever the faucet's enabledProperty becomes false the flow rate is
\* set to zero, in every state it can be disabled from: idle with the flow
\* left on (closeOnRelease false), in the middle of a shooter drag, and while
\* tap-to-dispense is running.
C19_DisableZeroesFlow ==
    [][(faucet.enabled /\ ~faucet'.enabled) => faucet'.flowRate = 0]_vars

\* C20: the press protocol of ArrowButton. A press released over the button
\* before timerDelay has elapsed invokes the callback exactly once, on the
\* release; a press held for timerDelay then invokes the callback every
\* intervalDelay until it is released; every completed press invokes the
\* callback at least once; no callback is invoked after the release.
C20_PressProtocol ==
    [][/\ (arrowButton'.op = "fire" /\ arrowButton.held < DefaultTimerDelay) =>
            (arrowButton.callbacks = 0 /\ arrowButton'.callbacks = 1)
       /\ (Pressed(arrowButton') /\ Due(arrowButton') = {}
              /\ arrowButton'.held >= DefaultTimerDelay) =>
            arrowButton'.callbacks =
                (arrowButton'.held - DefaultTimerDelay) \div DefaultIntervalDelay
       /\ (arrowButton'.op = "fire") => arrowButton'.callbacks >= 1
       /\ (arrowButton'.callbacks > arrowButton.callbacks) => Pressed(arrowButton)]_vars

\* C21: with the queue enabled, addToBack( u ) for an utterance u with a
\* non-null typeId removes every queued entry whose typeId equals u.typeId,
\* leaves the other entries in their order and places u last; so of two
\* addToBack calls of one typeId with nothing in between the earlier entry is
\* gone after the later call.
C21_AddToBackEvictsSameTypeId ==
    [][(enabled /\ op' = "addToBack" /\ calls'[Len(calls')].u.typeId # Null) =>
          LET u == calls'[Len(calls')].u
          IN  queue' = SelectSeq(queue, LAMBDA e : e.u.typeId # u.typeId)
                           \o <<[u |-> u, id |-> Len(calls')]>>]_vars

\* C22: addToFront on an enabled queue evicts nothing: the utterance becomes
\* the head, every entry that was queued stays, in the same order, entries of
\* the same typeId included, and the queue is longer by exactly one.
C22_AddToFrontKeepsAll ==
    [][(enabled /\ op' = "addToFront") =>
          /\ Len(queue') = Len(queue) + 1
          /\ Head(queue') = [u |-> calls'[Len(calls')].u, id |-> Len(calls')]
          /\ Tail(queue') = queue]_vars

\* addToFront has just put an utterance in front of two entries of its own
\* typeId.
C22_Witness ==
    /\ op = "addToFront" /\ Len(queue) = 3
    /\ \A k \in 1..3 : queue[k].u.typeId = "x"
    /\ <<queue[1].id, queue[2].id, queue[3].id>> = <<3, 2, 1>>

\* C23: utterances added with addToFront are announced in the reverse of their
\* call order, all of them before the entries queued earlier with addToBack:
\* in the queue the addToFront entries come first, latest call first, no
\* addToBack entry is ahead of one of them, and whenever a tick announces an
\* entry every addToFront entry still pending was called before it, the entry
\* announced being an addToFront one itself.
C23_FrontReverseOrder ==
    [][/\ \A p, q \in 1..Len(queue') :
             (p < q /\ calls'[queue'[q].id].via = "front") =>
                (calls'[queue'[p].id].via = "front" /\ queue'[p].id > queue'[q].id)
       /\ Announces =>
             \A k \in 1..Len(queue') :
                 calls[queue'[k].id].via = "front" =>
                    (calls[AnnouncedId].via = "front" /\ AnnouncedId > queue'[k].id)]_vars

\* Two addToFront calls made after an addToBack call, no tick in between, were
\* announced latest first, the addToBack entry after both.
C23_Witness ==
    /\ Len(calls) = 3 /\ Len(log) = 3 /\ op = "tick"
    /\ <<calls[1].via, calls[2].via, calls[3].via>> = <<"back", "front", "front">>
    /\ <<log[1].id, log[2].id, log[3].id>> = <<3, 2, 1>>

\* C24: the sink is called only by a drain tick, at most once per tick, with
\* the text of the entry that this tick removed from the head; addToBack,
\* addToFront, clear and the flag setters never call it, and the number of
\* sink calls never exceeds the number of accepted enqueues.
C24_AnnouncedOnlyByTick ==
    [][/\ (log' # log) =>
             /\ op' = "tick"
             /\ queue # <<>>
             /\ queue' = Tail(queue)
             /\ log' = Append(log, [id |-> Head(queue).id, text |-> TextOf(Head(queue).u)])
       /\ (op' # "tick") => log' = log
       /\ Len(log') <= Cardinality({i \in 1..Len(calls') : calls'[i].accepted})]_vars

\* A tick has announced the second of two accepted utterances, after a tick
\* that announced the first.
C24_Witness ==
    /\ op = "tick" /\ Len(log) = 2 /\ queue = <<>>
    /\ calls[1].accepted /\ calls[2].accepted

C26_MutedWhileResetting ==
    [][/\ resetAllButton'.started => getMuted'
       /\ (resetAllButton'.op = "ended" /\ resetAllButton.started) =>
             (~getMuted' /\ IsCallable(resetAllButton'.setMuted))]_vars

\* C27: with alertDiagonal false, alertDirections for a diagonal movement
\* results in two announcements back to back, one with the alert of each
\* primary direction, although both are enqueued through the one
\* directionChangeUtterance: every announcement carries the alert that the
\* utterance had when the addToBack call that queued it was made.
C27_EachDirectionAnnounced ==
    \A i \in 1..Len(log) : log[i].text = calls[log[i].id].u.alert[1]

\* C28: getDirectionEnumerable gives each diagonal direction only the band
\* within 15 degrees of its diagonal: every angle of absolute value between
\* 150 and 180 degrees is LEFT, negative or positive, and UP_LEFT is returned
\* only for angles from -150 to -120 degrees.
C28_DiagonalBands ==
    (movementDescriber.op = "getDirectionEnumerable") =>
        /\ (Abs(movementDescriber.angle) > (5 * PI) \div 6) => movementDescriber.direction = "LEFT"
        /\ (movementDescriber.direction = "UP_LEFT") =>
              (((0 - 5) * PI) \div 6 <= movementDescriber.angle
                  /\ movementDescriber.angle <= ((0 - 2) * PI) \div 3)

\* C29: the cursor of an Utterance moves only when its text is sent to the
\* sink: a step that announces nothing, such as a tick that drops the head
\* because the queue is muted or the predicate returns false, leaves every
\* cursor where it was, so that the i-th real announcement of an Utterance of
\* n strings is string number min(i, n) however many times it was dropped.
C29_DropKeepsCursor ==
    [][/\ (log' = log) => (cursor' = cursor)
       /\ \A i \in 1..Len(log') :
             LET u == calls'[log'[i].id].u
                 n == Len(u.alert)
                 k == Cardinality({j \in 1..i : calls'[log'[j].id].u.name = u.name})
             IN  log'[i].text = u.alert[IF k < n THEN k ELSE n]]_vars

\* C29 witness: the Utterance [ 'p1', 'p2' ] was enqueued three times; the
\* first was dropped by its predicate, the second by a muted queue, and the
\* third was announced as 'p1'.
C29_Witness ==
    /\ Len(calls) = 3
    /\ \A i \in 1..3 : calls[i].u = UtteranceP
    /\ [id |-> 1, why |-> "predicate"] \in dropped
    /\ [id |-> 2, why |-> "muted"] \in dropped
    /\ log = <<[id |-> 3, text |-> "p1"]>>
    /\ op = "tick"

\* C30: in FaucetNode, under every interleaving of press, drag, release,
\* disable and timer callbacks: while tapToDispenseIsRunning is false no
\* tap-to-dispense timeout or interval is scheduled; a timer callback that
\* runs belongs to the tap-to-dispense that is running, so it never ends
\* another one; and every tap-to-dispense that starts is eventually ended by
\* endTapToDispense with the flow rate set to 0.
C30_TapToDispenseTimers ==
    /\ [](~faucet.tapToDispenseIsRunning => faucet.timers = {})
    /\ [][(faucet' # faucet /\ faucet'.op \in {"timeout", "interval"}) =>
             /\ faucet.tapToDispenseIsRunning
             /\ \A timer \in faucet.timers : timer.tap = faucet.taps
             /\ (faucet'.op = "interval") =>
                   (faucet'.ended \ faucet.ended = {[tap |-> faucet.taps, flowRate |-> 0]})]_vars
    /\ \A tap \in 1..MaxTaps :
          (faucet.tapToDispenseIsRunning /\ faucet.taps = tap)
              ~> ([tap |-> tap, flowRate |-> 0] \in faucet.ended)

\* C30 witness: two taps-to-dispense were started; the second has just been
\* ended by the interval callback that its own timeout scheduled, and nothing
\* is scheduled any more.
C30_Witness ==
    /\ faucet.op = "interval"
    /\ faucet.taps = 2
    /\ faucet.ended = {[tap |-> 1, flowRate |-> 0], [tap |-> 2, flowRate |-> 0]}
    /\ ~faucet.tapToDispenseIsRunning
    /\ faucet.timers = {}
    /\ faucet.flowRate = 0

=============================================================================
